---- MODULE Spec2Model ----
(***************************************************************************)
(* A model of the KLEE feature pipeline:                                   *)
(*   scripts/extract_klee_features.py  (enumerate, read info, label,       *)
(*                                      extract stats, assemble the CSV)   *)
(*   scripts/automate_klee_execution.py (get_function_name_from_info_file) *)
(*   scripts/train_model.py            (load, clean, split, fit, report)   *)
(*                                                                         *)
(* Text is a sequence of one-character strings, so that strip, split,      *)
(* Path(...).stem and the substring tests are computed as Python computes  *)
(* them.  Four specifications share the variables; each leaves the         *)
(* variables of the other three untouched:                                 *)
(*   SpecInfo   one info file through both metadata readers                *)
(*   SpecStats  one run.stats store and warnings.txt through extract_stats *)
(*   Spec       main() of the assembler over two results roots that hold   *)
(*              the same run directories and differ in one run's artifacts *)
(*   SpecTrain  the trainer script over one dataset file                   *)
(***************************************************************************)
EXTENDS Integers, Sequences, FiniteSets, TLC

VARIABLES
    \* --- SpecInfo
    info,            \* the run directory's info file
    function_name,   \* extract_info_and_label: returned name
    label,           \* extract_info_and_label: returned label
    auto_name,       \* get_function_name_from_info_file: returned value
    ipc,             \* "idle" | "start" | "extracted" | "done"
    \* --- SpecStats
    store,           \* the run directory's run.stats
    warnfile,        \* the run directory's warnings.txt
    stat_values,     \* extract_stats: returned tuple
    spc,             \* "idle" | "start" | "done"
    \* --- Spec (assembler)
    root,            \* does RESULTS_DIR exist
    entries,         \* children of RESULTS_DIR: name -> kind
    art,             \* art[r][name]: artifacts of run directory name in root r
    diffDir,         \* the one run whose artifacts differ between the roots (0: none)
    out_dirs,        \* main: the enumerated run directories
    idx,             \* main: number of directories processed
    features,        \* features[r]: main's in-memory table for root r
    csv,             \* csv[r]: content of OUTPUT_CSV in root r
    pc,              \* "idle" | "start" | "loop" | "write" | "done" | "aborted" | "crashed"
    \* --- SpecTrain
    dataset,         \* the dataset file: absent, or its data rows
    df_cleaned,      \* rows left after dropping label -1
    train_idx,       \* rows of df_cleaned in the training subset
    test_idx,        \* rows of df_cleaned in the held-out subset
    y_pred,          \* predictions for the held-out rows
    tpc              \* "idle" | "start" | "loaded" | "cleaned" | "split" | "fitted"
                     \* | "reported" | "exit_nofile" | "exit_empty" | "raised"

infoVars  == <<info, function_name, label, auto_name, ipc>>
statsVars == <<store, warnfile, stat_values, spc>>
asmVars   == <<root, entries, art, diffDir, out_dirs, idx, features, csv, pc>>
trainVars == <<dataset, df_cleaned, train_idx, test_idx, y_pred, tpc>>
vars      == <<infoVars, statsVars, asmVars, trainVars>>

-----------------------------------------------------------------------------
(* Text helpers: Python's str methods and pathlib, on character sequences. *)

SP  == " "
TAB == "\t"
NL  == "\n"

\* str.strip() with no argument removes these from both ends.
Whitespace == {SP, TAB, NL}

RECURSIVE LStrip(_)
LStrip(s) ==
    IF s # <<>> /\ Head(s) \in Whitespace THEN LStrip(Tail(s)) ELSE s

RECURSIVE RStrip(_)
RStrip(s) ==
    IF s # <<>> /\ s[Len(s)] \in Whitespace
    THEN RStrip(SubSeq(s, 1, Len(s) - 1))
    ELSE s

Strip(s) == RStrip(LStrip(s))

\* str.split(sep) for a one-character sep: every occurrence separates, so
\* adjacent separators give empty parts and the result is never empty.
RECURSIVE SplitAcc(_, _, _)
SplitAcc(s, sep, cur) ==
    IF s = <<>> THEN <<cur>>
    ELSE IF Head(s) = sep
         THEN <<cur>> \o SplitAcc(Tail(s), sep, <<>>)
         ELSE SplitAcc(Tail(s), sep, Append(cur, Head(s)))

Split(s, sep) == SplitAcc(s, sep, <<>>)

\* `sub in s` for strings.
Contains(s, sub) ==
    \E i \in 1..(Len(s) - Len(sub) + 1) : SubSeq(s, i, i + Len(sub) - 1) = sub

\* str.rfind(c): the last position of c, 0 when absent (Python's -1).
RFind(s, c) ==
    IF \E i \in 1..Len(s) : s[i] = c
    THEN CHOOSE i \in 1..Len(s) :
            s[i] = c /\ \A j \in (i + 1)..Len(s) : s[j] # c
    ELSE 0

\* PurePosixPath(p).name: the path is cut at "/", empty and "." components
\* are dropped, the name is the last component left ("" when none is).
IsComponent(c) == c # <<>> /\ c # <<".">>

PathName(p) ==
    LET comps == SelectSeq(Split(p, "/"), IsComponent)
    IN  IF comps = <<>> THEN <<>> ELSE comps[Len(comps)]

\* PurePath.stem: the name up to its last dot, when that dot is neither the
\* first nor the last character.
Stem(p) ==
    LET name == PathName(p)
        i    == RFind(name, ".")
    IN  IF 1 < i /\ i < Len(name) THEN SubSeq(name, 1, i - 1) ELSE name

-----------------------------------------------------------------------------
(* The info file and the two readers of it.                                *)

\* An info file: absent; present but open()/readline() raises (a directory,
\* no permission, undecodable bytes); or its lines, each without its "\n".
NoInfo         == [exists |-> FALSE, readable |-> FALSE, lines |-> <<>>]
UnreadableInfo == [exists |-> TRUE,  readable |-> FALSE, lines |-> <<>>]
InfoOf(ls)     == [exists |-> TRUE,  readable |-> TRUE,  lines |-> ls]

\* f.readline(): the first line with its line end, "" at end of file.
ReadLine(f) == IF f.lines = <<>> THEN <<>> ELSE Append(f.lines[1], NL)

UNKNOWN_NAME == <<"u", "n", "k", "n", "o", "w", "n">>
BAD_MARKER   == <<"_", "b", "a", "d">>
GOOD_MARKER  == <<"_", "g", "o", "o", "d">>

Vulnerable    == 1
NotVulnerable == 0
Unknown       == -1

\* parts = first_line.strip().split(' '); Path(parts[-1]).stem
LastPart(first_line) ==
    LET parts == Split(Strip(first_line), SP)
    IN  parts[Len(parts)]

BitcodeStem(first_line) == Stem(LastPart(first_line))

\* InferLabel with the marker tests in the other order.
InferLabelGoodFirst(name) ==
    IF Contains(name, GOOD_MARKER) THEN NotVulnerable
    ELSE IF Contains(name, BAD_MARKER) THEN Vulnerable
    ELSE Unknown

\* InferLabel with the markers spelled without their underscore.
InferLabelNoUnderscore(name) ==
    IF Contains(name, Tail(BAD_MARKER)) THEN Vulnerable
    ELSE IF Contains(name, Tail(GOOD_MARKER)) THEN NotVulnerable
    ELSE Unknown

\* Lines 93-99.
InferLabel(name) ==
    IF Contains(name, BAD_MARKER) THEN Vulnerable
    ELSE IF Contains(name, GOOD_MARKER) THEN NotVulnerable
    ELSE Unknown

extract_info_and_label(f) ==
    IF ~f.exists THEN [function_name |-> UNKNOWN_NAME, label |-> Unknown]
    ELSE IF ~f.readable THEN [function_name |-> UNKNOWN_NAME, label |-> Unknown]
    ELSE LET name == BitcodeStem(ReadLine(f))
         IN  [function_name |-> name, label |-> InferLabel(name)]

\* The value None of get_function_name_from_info_file.
None == [none |-> TRUE, name |-> <<>>]
Some(n) == [none |-> FALSE, name |-> n]

get_function_name_from_info_file(f) ==
    IF ~f.exists THEN None
    ELSE IF ~f.readable THEN None
    ELSE Some(BitcodeStem(ReadLine(f)))

-----------------------------------------------------------------------------
(* run.stats, warnings.txt and extract_stats.                              *)

FEATURE_COLUMNS ==
    << "Instructions", "FullBranches", "PartialBranches", "NumBranches",
       "SolverQueries", "NumQueryConstructs", "CoveredInstructions",
       "UncoveredInstructions", "UserTime", "Allocations", "ExternalCalls" >>

FeatureSet == {FEATURE_COLUMNS[i] : i \in 1..Len(FEATURE_COLUMNS)}

\* A column value of a row: SQL NULL (Python's None) or <<v>> for the value v.
Null == <<>>

\* run.stats: absent, or an SQLite file.  fail names the first step of the
\* session that raises ("none": no step does); tables are the names in
\* sqlite_master; columns are those of table stats; rows are its rows in
\* the order SELECT returns them, each a function from columns to values.
NoStore == [exists |-> FALSE, fail |-> "none", tables |-> {}, columns |-> {},
            rows |-> <<>>]

FailPoints == {"none", "connect", "master", "pragma", "select"}

\* selected = [col for col in FEATURE_COLUMNS if col in available_columns]
Selected(st) ==
    LET Available(col) == col \in st.columns
    IN  SelectSeq(FEATURE_COLUMNS, Available)

ZeroStats == [key \in FeatureSet |-> 0]

\* ReadStats with the fetched row indexed by FEATURE_COLUMNS instead of by
\* the selected columns.
ReadStatsByPosition(st) ==
    IF ~st.exists \/ st.fail # "none" \/ "stats" \notin st.tables THEN ZeroStats
    ELSE LET selected == Selected(st)
         IN  IF selected = <<>> \/ st.rows = <<>> THEN ZeroStats
             ELSE LET row == [i \in 1..Len(selected) |-> st.rows[1][selected[i]]]
                  IN  [key \in FeatureSet |->
                         LET i == CHOOSE j \in 1..Len(FEATURE_COLUMNS) :
                                     FEATURE_COLUMNS[j] = key
                         IN  IF i <= Len(selected) /\ row[i] # Null
                             THEN row[i][1] ELSE 0]

\* Lines 28 and 31-50: the dict stats after the try block.  stats is
\* assigned only in the loop over the fetched row, after the last statement
\* that can raise.
ReadStats(st) ==
    IF ~st.exists THEN ZeroStats
    ELSE IF st.fail \in {"connect", "master"} THEN ZeroStats
    ELSE IF "stats" \notin st.tables THEN ZeroStats
    ELSE IF st.fail = "pragma" THEN ZeroStats
    ELSE LET selected == Selected(st)
         IN  IF selected = <<>> THEN ZeroStats
             ELSE IF st.fail = "select" THEN ZeroStats
             ELSE IF st.rows = <<>> THEN ZeroStats
             ELSE LET row == [i \in 1..Len(selected) |-> st.rows[1][selected[i]]]
                      Pos(key) == CHOOSE i \in 1..Len(selected) : selected[i] = key
                  IN  [key \in FeatureSet |->
                         IF \E i \in 1..Len(selected) : selected[i] = key
                         THEN IF row[Pos(key)] # Null THEN row[Pos(key)][1] ELSE 0
                         ELSE 0]

\* warnings.txt: absent, unreadable, or its lines, each without its "\n".
NoWarnings         == [exists |-> FALSE, readable |-> FALSE, lines |-> <<>>]
UnreadableWarnings == [exists |-> TRUE,  readable |-> FALSE, lines |-> <<>>]
WarningsOf(ls)     == [exists |-> TRUE,  readable |-> TRUE,  lines |-> ls]

WARNING_MARKER ==
    <<"K", "L", "E", "E", ":", " ", "W", "A", "R", "N", "I", "N", "G">>

StartsWith(s, p) == Len(s) >= Len(p) /\ SubSeq(s, 1, Len(p)) = p

IsWarningLine(line) == StartsWith(Strip(Append(line, NL)), WARNING_MARKER)

\* Lines 29 and 52-57.
CountWarnings(w) ==
    IF ~w.exists THEN 0
    ELSE IF ~w.readable THEN 0
    ELSE Len(SelectSeq(w.lines, IsWarningLine))

\* Whether a step of the statistics session raises.
StatsRaises(st) ==
    /\ st.exists
    /\ \/ st.fail \in {"connect", "master"}
       \/ "stats" \in st.tables /\ st.fail = "pragma"
       \/ "stats" \in st.tables /\ Selected(st) # <<>> /\ st.fail = "select"

\* extract_stats with both reads under one try: a failing statistics
\* session skips the count of the warnings.
extract_stats_one_try(st, w) ==
    LET stats == ReadStats(st)
    IN  [i \in 1..(Len(FEATURE_COLUMNS) + 1) |->
            IF i <= Len(FEATURE_COLUMNS) THEN stats[FEATURE_COLUMNS[i]]
            ELSE IF StatsRaises(st) THEN 0 ELSE CountWarnings(w)]

\* Line 59: (*[stats[key] for key in FEATURE_COLUMNS], warnings_count)
extract_stats(st, w) ==
    LET stats == ReadStats(st)
    IN  [i \in 1..(Len(FEATURE_COLUMNS) + 1) |->
            IF i <= Len(FEATURE_COLUMNS) THEN stats[FEATURE_COLUMNS[i]]
            ELSE CountWarnings(w)]

-----------------------------------------------------------------------------
(* Idle values: what a specification holds the other groups' variables at. *)

InfoIdle ==
    /\ info = NoInfo
    /\ function_name = <<>>
    /\ label = Unknown
    /\ auto_name = None
    /\ ipc = "idle"

StatsIdle ==
    /\ store = NoStore
    /\ warnfile = NoWarnings
    /\ stat_values = <<>>
    /\ spc = "idle"

AsmIdle ==
    /\ root = FALSE
    /\ entries = <<>>
    /\ art = <<<<>>, <<>>>>
    /\ diffDir = 0
    /\ out_dirs = <<>>
    /\ idx = 0
    /\ features = <<<<>>, <<>>>>
    /\ csv = <<>>
    /\ pc = "idle"

TrainIdle ==
    /\ dataset = [exists |-> FALSE, labels |-> <<>>]
    /\ df_cleaned = <<>>
    /\ train_idx = {}
    /\ test_idx = {}
    /\ y_pred = <<>>
    /\ tpc = "idle"

-----------------------------------------------------------------------------
(* SpecInfo: one info file, read by extract_info_and_label and then by     *)
(* get_function_name_from_info_file.                                       *)

\* The longest first line, in fragments.
MaxFrags == 4

\* What first lines are made of: a plain token, the separators, the path and
\* extension punctuation, the two markers, and "bad" without its underscore.
Fragments ==
    { <<"k">>, <<SP>>, <<TAB>>, <<"/">>, <<".">>, <<"b", "a", "d">>,
      BAD_MARKER, GOOD_MARKER }

\* A line as the fragments it is made of.
RECURSIVE Flatten(_)
Flatten(q) == IF q = <<>> THEN <<>> ELSE Head(q) \o Flatten(Tail(q))

\* A later line that names a vulnerable unit: it must not be read.
LATER_LINE == <<"P", "I", "D", SP>> \o <<"z">> \o BAD_MARKER

\* The info file is absent, unreadable, empty, or holds a first line of at
\* most MaxFrags fragments, alone or followed by LATER_LINE.
InitInfo ==
    /\ \/ info \in {NoInfo, UnreadableInfo, InfoOf(<<>>)}
       \/ \E k \in 0..MaxFrags : \E q \in [1..k -> Fragments] :
             info \in {InfoOf(<<Flatten(q)>>), InfoOf(<<Flatten(q), LATER_LINE>>)}
    /\ function_name = <<>>
    /\ label = Unknown
    /\ auto_name = None
    /\ ipc = "start"
    /\ StatsIdle /\ AsmIdle /\ TrainIdle

\* extract_klee_features.py: function_name, label = extract_info_and_label(d)
CallExtractInfo ==
    /\ ipc = "start"
    /\ LET r == extract_info_and_label(info)
       IN  /\ function_name' = r.function_name
           /\ label' = r.label
    /\ ipc' = "extracted"
    /\ UNCHANGED <<info, auto_name, statsVars, asmVars, trainVars>>

\* automate_klee_execution.py: get_function_name_from_info_file(d)
CallGetFunctionName ==
    /\ ipc = "extracted"
    /\ auto_name' = get_function_name_from_info_file(info)
    /\ ipc' = "done"
    /\ UNCHANGED <<info, function_name, label, statsVars, asmVars, trainVars>>

NextInfo == CallExtractInfo \/ CallGetFunctionName

SpecInfo == InitInfo /\ [][NextInfo]_vars

-----------------------------------------------------------------------------
(* SpecStats: one run.stats and one warnings.txt through extract_stats.    *)

\* The most lines of a warnings.txt.
MaxWarnLines == 2

\* A column run.stats may hold that is no feature.
EXTRA_COLUMN == "Extra"

ColumnIndex(c) ==
    IF c \in FeatureSet
    THEN CHOOSE i \in 1..Len(FEATURE_COLUMNS) : FEATURE_COLUMNS[i] = c
    ELSE 0

Prefix(n) == {FEATURE_COLUMNS[i] : i \in 1..n}
OddColumns == {FEATURE_COLUMNS[i] : i \in {j \in 1..Len(FEATURE_COLUMNS) : j % 2 = 1}}

\* Schemas of table stats: none of the features, all of them, and stores
\* of other versions that lack some or carry others.
ColumnSets ==
    { {}, {EXTRA_COLUMN}, FeatureSet, FeatureSet \cup {EXTRA_COLUMN},
      Prefix(3), FeatureSet \ Prefix(3), OddColumns \cup {EXTRA_COLUMN},
      {"UserTime"} }

\* Rows over a schema: every column distinct, every column NULL, NULL in
\* the even feature columns.
DistinctRow(cols, base) == [c \in cols |-> <<base + ColumnIndex(c)>>]
NullRow(cols) == [c \in cols |-> Null]
MixedRow(cols) ==
    [c \in cols |-> IF ColumnIndex(c) % 2 = 0 THEN Null ELSE <<ColumnIndex(c)>>]

RowSeqs(cols) ==
    { <<>>, <<DistinctRow(cols, 100)>>, <<NullRow(cols)>>, <<MixedRow(cols)>>,
      <<DistinctRow(cols, 100), DistinctRow(cols, 200)>>,
      <<NullRow(cols), DistinctRow(cols, 200)>> }

Stores ==
    {NoStore} \cup
    { [exists |-> TRUE, fail |-> f, tables |-> t, columns |-> c, rows |-> r] :
        f \in FailPoints, t \in {{}, {"other"}, {"stats", "other"}},
        c \in ColumnSets, r \in UNION {RowSeqs(cc) : cc \in ColumnSets} }

WellFormed(st) ==
    st.exists =>
        /\ \A i \in 1..Len(st.rows) : DOMAIN st.rows[i] = st.columns
        /\ ("stats" \notin st.tables => st.columns = {} /\ st.rows = <<>>)

WarningLines ==
    { WARNING_MARKER \o <<":", " ", "x">>,
      <<SP, TAB>> \o WARNING_MARKER,
      <<"K", "L", "E", "E", ":", " ", "E", "R", "R", "O", "R">>,
      <<"x", " ">> \o WARNING_MARKER,
      <<>> }

\* The sequences over S of length at most n.
SeqsUpTo(S, n) == UNION {[1..k -> S] : k \in 0..n}

WarningFiles ==
    {NoWarnings, UnreadableWarnings}
        \cup {WarningsOf(ls) : ls \in SeqsUpTo(WarningLines, MaxWarnLines)}

InitStats ==
    /\ store \in {st \in Stores : WellFormed(st)}
    /\ warnfile \in WarningFiles
    /\ stat_values = <<>>
    /\ spc = "start"
    /\ InfoIdle /\ AsmIdle /\ TrainIdle

\* extract_klee_features.py: stat_values = extract_stats(klee_dir)
CallExtractStats ==
    /\ spc = "start"
    /\ stat_values' = extract_stats(store, warnfile)
    /\ spc' = "done"
    /\ UNCHANGED <<store, warnfile, infoVars, asmVars, trainVars>>

NextStats == CallExtractStats

SpecStats == InitStats /\ [][NextStats]_vars

-----------------------------------------------------------------------------
(* Spec: main() of extract_klee_features.py, run over two results roots in *)
(* step.  The roots hold the same children; the artifacts of a run         *)
(* directory are drawn when the loop reaches it and are the same in both   *)
(* roots, except in the run diffDir.                                       *)

\* The most children of RESULTS_DIR.
MaxEntries == 2

Names == 1..MaxEntries
Roots == {1, 2}

\* A child of RESULTS_DIR: absent, or a directory or file whose name does
\* or does not start with KLEE_OUT_PREFIX.  Names are ordered as the paths
\* sort.
Absent == [present |-> FALSE, is_dir |-> FALSE, prefixed |-> FALSE]
RunDir == [present |-> TRUE,  is_dir |-> TRUE,  prefixed |-> TRUE]
Children ==
    { Absent, RunDir,
      [present |-> TRUE, is_dir |-> TRUE,  prefixed |-> FALSE],
      [present |-> TRUE, is_dir |-> FALSE, prefixed |-> TRUE] }

\* sorted(S) for a set of names.
RECURSIVE Sorted(_)
Sorted(S) ==
    IF S = {} THEN <<>>
    ELSE LET m == CHOOSE x \in S : \A y \in S : x <= y
         IN  <<m>> \o Sorted(S \ {m})

\* Line 64.
collect_klee_outputs ==
    Sorted({n \in Names : /\ entries[n].present
                          /\ entries[n].is_dir
                          /\ entries[n].prefixed})

\* Line 113.
Header ==
    <<"klee_dir_name", "function_name">> \o FEATURE_COLUMNS \o <<"warnings", "label">>

\* The artifacts of one run directory: each of the three files absent or
\* present, the store present also with a query that fails.  (Unreadable and
\* malformed files have SpecInfo and SpecStats; they give the rows of the
\* absent ones.)
BAD_LINE == <<"k", SP, "a", "/", "x">> \o BAD_MARKER \o <<".", "b", "c">>

FullStore(f) ==
    [exists |-> TRUE, fail |-> f, tables |-> {"stats"}, columns |-> FeatureSet,
     rows |-> <<DistinctRow(FeatureSet, 100)>>]

Artifacts ==
    [ info  : {NoInfo, InfoOf(<<BAD_LINE>>)},
      stats : {NoStore, FullStore("select"), FullStore("none")},
      warn  : {NoWarnings, WarningsOf(<<WARNING_MARKER>>)} ]

\* Lines 118-124: the row of run directory name with artifacts a.
RowOf(name, a) ==
    LET r == extract_info_and_label(a.info)
    IN  <<name, r.function_name>> \o extract_stats(a.stats, a.warn) \o <<r.label>>

NoCsv    == [exists |-> FALSE, rows |-> <<>>]
\* A dataset left by an earlier run over other directories.
StaleCsv == [exists |-> TRUE,
             rows |-> <<Header, <<0, UNKNOWN_NAME>> \o extract_stats(NoStore, NoWarnings)
                                   \o <<Unknown>> >>]

Init ==
    /\ root \in BOOLEAN
    /\ entries \in [Names -> Children]
    /\ ~root => \A n \in Names : entries[n] = Absent
    /\ diffDir \in {0} \cup {n \in Names : entries[n] = RunDir}
    /\ art = <<<<>>, <<>>>>
    /\ out_dirs = <<>>
    /\ idx = 0
    /\ features = <<<<>>, <<>>>>
    /\ csv \in {<<NoCsv, NoCsv>>, <<StaleCsv, StaleCsv>>}
    /\ (~root => csv = <<NoCsv, NoCsv>>)
    /\ pc = "start"
    /\ InfoIdle /\ StatsIdle /\ TrainIdle

\* Line 64 with RESULTS_DIR absent: iterdir() raises FileNotFoundError,
\* which nothing catches.
CollectMissingRoot ==
    /\ pc = "start"
    /\ ~root
    /\ pc' = "crashed"
    /\ UNCHANGED <<root, entries, art, diffDir, out_dirs, idx, features, csv>>
    /\ UNCHANGED <<infoVars, statsVars, trainVars>>

\* CollectEmpty, with the dataset written before the check.
CollectEmptyWritesHeader ==
    /\ pc = "start"
    /\ root
    /\ collect_klee_outputs = <<>>
    /\ csv' = [r \in Roots |-> [exists |-> TRUE, rows |-> <<Header>>]]
    /\ pc' = "aborted"
    /\ UNCHANGED <<root, entries, art, diffDir, out_dirs, idx, features>>
    /\ UNCHANGED <<infoVars, statsVars, trainVars>>

\* Lines 107-110: no run directory.
CollectEmpty ==
    /\ pc = "start"
    /\ root
    /\ collect_klee_outputs = <<>>
    /\ pc' = "aborted"
    /\ UNCHANGED <<root, entries, art, diffDir, out_dirs, idx, features, csv>>
    /\ UNCHANGED <<infoVars, statsVars, trainVars>>

\* Lines 107-114.
CollectRuns ==
    /\ pc = "start"
    /\ root
    /\ collect_klee_outputs # <<>>
    /\ out_dirs' = collect_klee_outputs
    /\ features' = [r \in Roots |-> <<Header>>]
    /\ pc' = "loop"
    /\ UNCHANGED <<root, entries, art, diffDir, idx, csv>>
    /\ UNCHANGED <<infoVars, statsVars, trainVars>>

\* ProcessDir, skipping a run directory that has no info file.
ProcessDirSkipsMissingInfo ==
    /\ pc = "loop"
    /\ idx < Len(out_dirs)
    /\ \E a1, a2 \in Artifacts :
          /\ out_dirs[idx + 1] # diffDir => a2 = a1
          /\ art' = <<Append(art[1], a1), Append(art[2], a2)>>
          /\ features' =
                <<IF a1.info.exists
                  THEN Append(features[1], RowOf(out_dirs[idx + 1], a1))
                  ELSE features[1],
                  IF a2.info.exists
                  THEN Append(features[2], RowOf(out_dirs[idx + 1], a2))
                  ELSE features[2]>>
    /\ idx' = idx + 1
    /\ UNCHANGED <<root, entries, diffDir, out_dirs, csv, pc>>
    /\ UNCHANGED <<infoVars, statsVars, trainVars>>

\* Lines 116-124: one iteration of the loop, in both roots.
ProcessDir ==
    /\ pc = "loop"
    /\ idx < Len(out_dirs)
    /\ \E a1, a2 \in Artifacts :
          /\ out_dirs[idx + 1] # diffDir => a2 = a1
          /\ art' = <<Append(art[1], a1), Append(art[2], a2)>>
          /\ features' = <<Append(features[1], RowOf(out_dirs[idx + 1], a1)),
                           Append(features[2], RowOf(out_dirs[idx + 1], a2))>>
    /\ idx' = idx + 1
    /\ UNCHANGED <<root, entries, diffDir, out_dirs, csv, pc>>
    /\ UNCHANGED <<infoVars, statsVars, trainVars>>

\* Lines 126-128: writerows(features).
WriteCsv ==
    /\ pc = "loop"
    /\ idx = Len(out_dirs)
    /\ csv' = [r \in Roots |-> [exists |-> TRUE, rows |-> features[r]]]
    /\ pc' = "done"
    /\ UNCHANGED <<root, entries, art, diffDir, out_dirs, idx, features>>
    /\ UNCHANGED <<infoVars, statsVars, trainVars>>

Next ==
    \/ CollectMissingRoot
    \/ CollectEmpty
    \/ CollectRuns
    \/ ProcessDir
    \/ WriteCsv

Spec == Init /\ [][Next]_vars

-----------------------------------------------------------------------------
(* SpecTrain: train_model.py over one dataset file.  Only the label column *)
(* decides what the script does before the tree is fitted; a row is known  *)
(* by its position in the file.                                            *)

\* The most data rows of the dataset file.
MaxRows == 7

Labels == {Unknown, NotVulnerable, Vulnerable}

Datasets ==
    {[exists |-> FALSE, labels |-> <<>>]}
        \cup {[exists |-> TRUE, labels |-> l] : l \in SeqsUpTo(Labels, MaxRows)}

\* The filter with a comparison that no row fails.
KeptRowsAll(labels) == SelectSeq([i \in 1..Len(labels) |-> i], LAMBDA i : TRUE)

\* Line 25: df[df['label'] != -1], as the positions kept, in file order.
KeptRows(labels) ==
    SelectSeq([i \in 1..Len(labels) |-> i], LAMBDA i : labels[i] # Unknown)

Range(f) == {f[i] : i \in DOMAIN f}

LabelOf(i) == dataset.labels[i]
Rows       == Range(df_cleaned)
Classes    == {LabelOf(i) : i \in Rows}
ClassRows(k) == {i \in Rows : LabelOf(i) = k}

\* Lines 55-57: train_test_split(X, y, test_size=0.2, stratify=y).
\* n_test = ceil(0.2 * n), n_train = n - n_test.
TEST_FIFTH == 5
NTest(n)  == (n + TEST_FIFTH - 1) \div TEST_FIFTH
NTrain(n) == n - NTest(n)

\* The call raises ValueError when the training subset would be empty, a
\* class has a single member, or a subset is smaller than the number of
\* classes.
SplitFeasible ==
    LET n == Cardinality(Rows)
    IN  /\ NTrain(n) > 0
        /\ \A k \in Classes : Cardinality(ClassRows(k)) >= 2
        /\ NTrain(n) >= Cardinality(Classes)
        /\ NTest(n) >= Cardinality(Classes)

\* The training subset takes of class k its share of n_train rounded down,
\* and the rows still missing go one each to the classes with the largest
\* remainders (ties by the seeded generator).
StratifiedTrain(T) ==
    LET n      == Cardinality(Rows)
        nt     == NTrain(n)
        cnt(k) == Cardinality(ClassRows(k))
        got(k) == Cardinality(T \cap ClassRows(k))
        flo(k) == (cnt(k) * nt) \div n
        rem(k) == (cnt(k) * nt) % n
    IN  /\ Cardinality(T) = nt
        /\ \A k \in Classes : got(k) \in {flo(k), flo(k) + 1}
        /\ \A k, m \in Classes :
              (got(k) = flo(k) + 1 /\ got(m) = flo(m)) => rem(k) >= rem(m)

\* Lines 78-86: classification_report with two target_names raises
\* ValueError unless y_test and y_pred hold two labels between them.
ReportLabels(pred) == {LabelOf(i) : i \in test_idx} \cup Range(pred)
TARGET_NAMES == 2

\* What the fitted tree can answer: a class of the training subset.
Predictions == [test_idx -> {LabelOf(i) : i \in train_idx}]

InitTrain ==
    /\ dataset \in Datasets
    /\ df_cleaned = <<>>
    /\ train_idx = {}
    /\ test_idx = {}
    /\ y_pred = <<>>
    /\ tpc = "start"
    /\ InfoIdle /\ StatsIdle /\ AsmIdle

\* Lines 16-19.
LoadMissing ==
    /\ tpc = "start"
    /\ ~dataset.exists
    /\ tpc' = "exit_nofile"
    /\ UNCHANGED <<dataset, df_cleaned, train_idx, test_idx, y_pred>>
    /\ UNCHANGED <<infoVars, statsVars, asmVars>>

\* Lines 11-15.
Load ==
    /\ tpc = "start"
    /\ dataset.exists
    /\ tpc' = "loaded"
    /\ UNCHANGED <<dataset, df_cleaned, train_idx, test_idx, y_pred>>
    /\ UNCHANGED <<infoVars, statsVars, asmVars>>

\* Lines 25-31: nothing left, exit().
CleanEmpty ==
    /\ tpc = "loaded"
    /\ KeptRows(dataset.labels) = <<>>
    /\ df_cleaned' = KeptRows(dataset.labels)
    /\ tpc' = "exit_empty"
    /\ UNCHANGED <<dataset, train_idx, test_idx, y_pred>>
    /\ UNCHANGED <<infoVars, statsVars, asmVars>>

\* Lines 25-49.
Clean ==
    /\ tpc = "loaded"
    /\ KeptRows(dataset.labels) # <<>>
    /\ df_cleaned' = KeptRows(dataset.labels)
    /\ tpc' = "cleaned"
    /\ UNCHANGED <<dataset, train_idx, test_idx, y_pred>>
    /\ UNCHANGED <<infoVars, statsVars, asmVars>>

\* Lines 55-57, the call raising.
SplitRaises ==
    /\ tpc = "cleaned"
    /\ ~SplitFeasible
    /\ tpc' = "split_raised"
    /\ UNCHANGED <<dataset, df_cleaned, train_idx, test_idx, y_pred>>
    /\ UNCHANGED <<infoVars, statsVars, asmVars>>

\* Lines 55-60.
TrainTestSplit ==
    /\ tpc = "cleaned"
    /\ SplitFeasible
    /\ \E T \in SUBSET Rows :
          /\ StratifiedTrain(T)
          /\ train_idx' = T
          /\ test_idx' = Rows \ T
    /\ tpc' = "split"
    /\ UNCHANGED <<dataset, df_cleaned, y_pred>>
    /\ UNCHANGED <<infoVars, statsVars, asmVars>>

\* Lines 67-72.
Fit ==
    /\ tpc = "split"
    /\ tpc' = "fitted"
    /\ UNCHANGED <<dataset, df_cleaned, train_idx, test_idx, y_pred>>
    /\ UNCHANGED <<infoVars, statsVars, asmVars>>

\* Lines 78-86, classification_report raising.
ReportRaises ==
    /\ tpc = "fitted"
    /\ \E pred \in Predictions :
          /\ Cardinality(ReportLabels(pred)) # TARGET_NAMES
          /\ y_pred' = pred
    /\ tpc' = "report_raised"
    /\ UNCHANGED <<dataset, df_cleaned, train_idx, test_idx>>
    /\ UNCHANGED <<infoVars, statsVars, asmVars>>

\* Lines 78-86.
Report ==
    /\ tpc = "fitted"
    /\ \E pred \in Predictions :
          /\ Cardinality(ReportLabels(pred)) = TARGET_NAMES
          /\ y_pred' = pred
    /\ tpc' = "reported"
    /\ UNCHANGED <<dataset, df_cleaned, train_idx, test_idx>>
    /\ UNCHANGED <<infoVars, statsVars, asmVars>>

NextTrain ==
    \/ LoadMissing
    \/ Load
    \/ CleanEmpty
    \/ Clean
    \/ SplitRaises
    \/ TrainTestSplit
    \/ Fit
    \/ ReportRaises
    \/ Report

SpecTrain == InitTrain /\ [][NextTrain]_vars

-----------------------------------------------------------------------------
(* Claims on the metadata readers and the label (SpecInfo).                *)

Extracted == ipc \in {"extracted", "done"}

NullIdentifier == ~info.exists \/ ~info.readable

\* C2 as stated: every identifier with the bad marker is labelled 1, every
\* identifier with the good marker is labelled 0, every other one -1.
C2_AsStated ==
    Extracted =>
        /\ Contains(function_name, BAD_MARKER) => label = 1
        /\ Contains(function_name, GOOD_MARKER) => label = 0
        /\ (~Contains(function_name, BAD_MARKER)
              /\ ~Contains(function_name, GOOD_MARKER)) => label = -1
        /\ NullIdentifier => label = -1

\* C2 as amended: an identifier with the bad marker is labelled 1; one with
\* the good marker and without the bad marker is labelled 0; one with
\* neither marker, and the null identifier, is labelled -1.
C2_Label ==
    Extracted =>
        /\ Contains(function_name, BAD_MARKER) => label = 1
        /\ (Contains(function_name, GOOD_MARKER)
              /\ ~Contains(function_name, BAD_MARKER)) => label = 0
        /\ (~Contains(function_name, BAD_MARKER)
              /\ ~Contains(function_name, GOOD_MARKER)) => label = -1
        /\ NullIdentifier => label = -1

\* A good-only identifier has been read from a file and labelled 0.
C2_Witness ==
    /\ Extracted /\ info.readable
    /\ Contains(function_name, GOOD_MARKER)
    /\ ~Contains(function_name, BAD_MARKER)
    /\ label = 0

\* C7: an identifier that holds both markers is labelled 1, whichever
\* marker comes first in it.
C7_BadFirst ==
    (Extracted /\ Contains(function_name, BAD_MARKER)
               /\ Contains(function_name, GOOD_MARKER)) => label = 1

\* The good marker directly followed by the bad marker, labelled 1.
C7_Witness ==
    /\ Extracted
    /\ Contains(function_name, GOOD_MARKER \o BAD_MARKER)
    /\ label = 1

FirstLine == IF info.lines = <<>> THEN <<>> ELSE info.lines[1]

Blank(s) == \A i \in 1..Len(s) : s[i] \in Whitespace

\* C4: a missing, unreadable or empty info file, or one whose first line is
\* blank, gives the placeholder name with label -1 (None from the reader of
\* automate_klee_execution.py).
C4_NullOnFailure ==
    (NullIdentifier \/ info.lines = <<>> \/ Blank(FirstLine)) =>
        /\ Extracted => (function_name = UNKNOWN_NAME /\ label = Unknown)
        /\ ipc = "done" => auto_name = None

\* str.split() with no argument: the maximal runs of non-whitespace.
RECURSIVE WsTokensAcc(_, _)
WsTokensAcc(s, cur) ==
    IF s = <<>> THEN (IF cur = <<>> THEN <<>> ELSE <<cur>>)
    ELSE IF Head(s) \in Whitespace
         THEN (IF cur = <<>> THEN <<>> ELSE <<cur>>) \o WsTokensAcc(Tail(s), <<>>)
         ELSE WsTokensAcc(Tail(s), Append(cur, Head(s)))

LastWsToken(s) ==
    LET toks == WsTokensAcc(s, <<>>)
    IN  toks[Len(toks)]

\* C8: the identifier of a readable file with a non-blank first line is the
\* stem of the last whitespace-delimited token of that line, and both
\* readers return it.
C8_StemOfLastToken ==
    (info.readable /\ ~Blank(FirstLine)) =>
        /\ Extracted => function_name = Stem(LastWsToken(FirstLine))
        /\ ipc = "done" => auto_name = Some(Stem(LastWsToken(FirstLine)))

-----------------------------------------------------------------------------
(* Claims on extract_stats (SpecStats).                                    *)

StoreReadable == store.exists /\ store.fail = "none"

\* What C3 says metric i is.
MetricExpected(i) ==
    LET col == FEATURE_COLUMNS[i]
    IN  IF /\ StoreReadable
           /\ "stats" \in store.tables
           /\ col \in store.columns
           /\ store.rows # <<>>
        THEN IF store.rows[1][col] # Null THEN store.rows[1][col][1] ELSE 0
        ELSE 0

WarningsExpected ==
    IF warnfile.exists /\ warnfile.readable
    THEN Cardinality({i \in 1..Len(warnfile.lines) : IsWarningLine(warnfile.lines[i])})
    ELSE 0

\* C3: extract_stats returns the 11 metrics in FEATURE_COLUMNS order and then
\* the warning count, each a number; a metric is the first row's value when
\* the store is readable and has the table, the column and a non-null value,
\* and 0 otherwise; with the store missing or a step failing all 11 are 0.
C3_FullyPopulated ==
    spc = "done" =>
        /\ Len(stat_values) = 12
        /\ \A i \in 1..12 : stat_values[i] \in Nat
        /\ \A i \in 1..11 : stat_values[i] = MetricExpected(i)
        /\ stat_values[12] = WarningsExpected
        /\ ~StoreReadable => \A i \in 1..11 : stat_values[i] = 0

\* A readable store of another version (a feature column missing, NULL in
\* one that is present) has given a non-zero metric, beside counted warnings.
C3_Witness ==
    /\ spc = "done" /\ StoreReadable
    /\ \E i, j, k \in 1..11 :
          /\ stat_values[i] > 0
          /\ FEATURE_COLUMNS[j] \notin store.columns
          /\ FEATURE_COLUMNS[k] \in store.columns
          /\ store.rows[1][FEATURE_COLUMNS[k]] = Null
    /\ stat_values[12] > 0

-----------------------------------------------------------------------------
(* Claims on the assembler (Spec).                                         *)

\* The run directories of the results root, by the definition of section
\* 4.1: the children that are directories and carry the prefix.
RunNames ==
    {n \in Names : entries[n].present /\ entries[n].is_dir /\ entries[n].prefixed}

\* C1: with at least one run directory main() does not stop early, and the
\* dataset it writes is the header row and then one row per run directory,
\* in sorted order, each row of the header's width.
C1_OneRowPerRun ==
    /\ (root /\ RunNames # {}) => pc \notin {"crashed", "aborted"}
    /\ pc = "done" =>
          \A r \in Roots :
             LET rows == csv[r].rows
             IN  /\ csv[r].exists
                 /\ Len(rows) = 1 + Cardinality(RunNames)
                 /\ rows[1] = Header
                 /\ \A i \in 2..Len(rows) :
                       /\ Len(rows[i]) = Len(Header)
                       /\ rows[i][1] \in RunNames
                       /\ \A j \in 2..Len(rows) : i < j => rows[i][1] < rows[j][1]

\* Two run directories, the first without info file and without run.stats,
\* are both in the written dataset.
C1_Witness ==
    /\ pc = "done"
    /\ Len(out_dirs) = 2
    /\ ~art[1][1].info.exists /\ ~art[1][1].stats.exists
    /\ art[1][2].info.exists
    /\ Len(csv[1].rows) = 3

NothingToAssemble == ~root \/ RunNames = {}

\* C6: with the results root absent, or no run directory in it, the only
\* step main() takes is the one that stops it, and that step processes no
\* directory and leaves the dataset file as it was.
C6_NoWorkWithoutRuns ==
    [][NothingToAssemble =>
          /\ pc' \in {"crashed", "aborted"}
          /\ csv' = csv
          /\ idx' = idx /\ art' = art /\ features' = features]_vars

\* main() has stopped on a root that holds children but no run directory,
\* with an earlier dataset still in place.
C6_Witness ==
    /\ pc = "aborted"
    /\ \E n \in Names : entries[n].present
    /\ csv = <<StaleCsv, StaleCsv>>
    /\ idx = 0

\* Columns of a data row.
NAME_COLUMN     == 2
WARNINGS_COLUMN == 14
LABEL_COLUMN    == 15
MetricColumns   == 3..13

\* C9: the two datasets agree in every row but the row of diffDir; and in
\* the row of a run whose warnings.txt is the same in both roots the warning
\* count is the same, whose run.stats is the same the metrics are the same,
\* whose info file is the same the name and the label are the same.
C9_FaultIsolation ==
    pc = "done" =>
        /\ Len(csv[1].rows) = Len(csv[2].rows)
        /\ \A i \in 1..Len(out_dirs) :
              LET r1 == csv[1].rows[i + 1]
                  r2 == csv[2].rows[i + 1]
              IN  /\ out_dirs[i] # diffDir => r1 = r2
                  /\ art[1][i].warn = art[2][i].warn =>
                        r1[WARNINGS_COLUMN] = r2[WARNINGS_COLUMN]
                  /\ art[1][i].stats = art[2][i].stats =>
                        \A k \in MetricColumns : r1[k] = r2[k]
                  /\ art[1][i].info = art[2][i].info =>
                        /\ r1[NAME_COLUMN] = r2[NAME_COLUMN]
                        /\ r1[LABEL_COLUMN] = r2[LABEL_COLUMN]

\* The first of two runs has a failing statistics query in the second root
\* only, and the same counted warning in both: its rows differ, the other
\* run's rows do not.
C9_Witness ==
    /\ pc = "done"
    /\ Len(out_dirs) = 2
    /\ diffDir = out_dirs[1]
    /\ art[1][1].stats.fail = "none" /\ art[2][1].stats.fail = "select"
    /\ art[1][1].warn = art[2][1].warn
    /\ csv[1].rows[2][WARNINGS_COLUMN] = 1
    /\ csv[1].rows[2] # csv[2].rows[2]
    /\ csv[1].rows[3] = csv[2].rows[3]

-----------------------------------------------------------------------------
(* Claims on the trainer (SpecTrain).                                      *)

LabelledRows == {i \in 1..Len(dataset.labels) : dataset.labels[i] \in {0, 1}}

SplitCalled ==
    tpc \in {"split_raised", "split", "fitted", "report_raised", "reported"}

\* C5: the split is called only with the dataset loaded, and with exactly
\* the rows labelled 0 or 1, in file order; what it returns holds those rows
\* and no other; a dataset without a labelled row ends before the split.
C5_OnlyLabelledReachSplit ==
    /\ SplitCalled =>
          /\ dataset.exists
          /\ Range(df_cleaned) = LabelledRows
          /\ LabelledRows # {}
          /\ \A i, j \in 1..Len(df_cleaned) : i < j => df_cleaned[i] < df_cleaned[j]
    /\ tpc \in {"split", "fitted", "report_raised", "reported"} =>
          train_idx \cup test_idx = LabelledRows
    /\ ~dataset.exists => tpc \in {"start", "exit_nofile"}
    /\ (dataset.exists /\ LabelledRows = {}) => tpc \in {"start", "loaded", "exit_empty"}

\* A dataset with rows labelled -1 beside rows of both classes has been
\* filtered, split, fitted and reported.
C5_Witness ==
    /\ tpc = "reported"
    /\ \E i \in 1..Len(dataset.labels) : dataset.labels[i] = -1
    /\ \A i \in test_idx \cup train_idx : dataset.labels[i] # -1

\* C10: a dataset file with at least one row labelled 0 or 1 never ends the
\* trainer in an error: the split, the fit and the report are reached.
C10_OnlyTwoFatalConditions ==
    (dataset.exists /\ LabelledRows # {}) =>
        tpc \notin {"split_raised", "report_raised"}

====
